---- MODULE Spec2Model ----
(***************************************************************************)
(* Model of cmd/medius/images/verify.go: the "verify" command of medius.   *)
(* One run loads the results ledger, lets the worker pool call the         *)
(* per-artifact callback (verifyArtifact) for every artifact of the        *)
(* registry, merges the results sent over resultsChan into the ledger,     *)
(* writes the ledger and exits.  Runs follow each other on the persisted   *)
(* ledger file.                                                            *)
(***************************************************************************)
EXTENDS Naturals, Sequences, FiniteSets, TLC

\* ---------------------------------------------------------------- bounds
NumTests == 2      \* length of artifact.Tests() of the largest artifact
MaxPolls == 2      \* polls of waitVMReady before the timeout elapses
MaxRuns == 2       \* successive runs of the command on one ledger file

\* ------------------------------------------------------- catalog and inputs
\* common.Registry: artifacts keyed by Metadata().Describe(); both share the
\* base name Metadata().Name, as two versions of one distribution do.
Registry == {"fedora:39", "fedora:40"}

Name(a) == "fedora"

Tests(a) == IF a = "fedora:39" THEN NumTests ELSE NumTests - 1

\* urand.String(5)
Suffixes == {"ab12x", "cd34y"}

\* the tag lists a results file can hold for an artifact
TagSeqs(a) == IF a = "fedora:39" THEN {<< >>, <<"39">>, <<"39", "latest">>}
                                 ELSE {<< >>, <<"40">>}

\* api.ArtifactResult values a results file can hold for an artifact
Entries(a) ==
  {[Tags |-> t, Verified |-> FALSE] : t \in TagSeqs(a)}
    \cup {[Tags |-> t, Verified |-> TRUE] : t \in TagSeqs(a) \ {<< >>, <<"39">>}}

Ledgers ==
  UNION {{f \in [D -> UNION {Entries(a) : a \in Registry}] : \A a \in D : f[a] \in Entries(a)} :
           D \in SUBSET Registry}

EmptyLedger == [k \in {} |-> [Tags |-> << >>, Verified |-> FALSE]]

Nil == [kind |-> "nil", idx |-> 0]

Err(k) == [kind |-> k, idx |-> 0]

TestErr(i) == [kind |-> "test", idx |-> i]

VARIABLES
  file,       \* the results file on disk
  ledger,     \* results: the in-memory ledger of the run
  ledger0,    \* the ledger as loaded at the start of the run
  cancelled,  \* cmd.Context() is cancelled
  att,        \* per artifact: the state of its callback / verifyArtifact
  chan,       \* resultsChan contents
  closed,     \* resultsChan is closed
  cluster,    \* names of the VMs existing in the namespace
  mpc,        \* position of the Run function
  werr,       \* spawnWorkers returned an error
  saves,      \* invocations of writeResultsFile in this run
  savedArg,   \* the ledger handed to writeResultsFile, << >> before
  exit,       \* process exit status
  run,        \* number of the current run
  persisted   \* artifacts whose result a run wrote to the file

vars == <<file, ledger, ledger0, cancelled, att, chan, closed, cluster, mpc, werr,
          saves, savedArg, exit, run, persisted>>

\* variant: the channel has room for one result less than there are artifacts
ChanCapShort == Cardinality(Registry) - 1

\* make(chan workerResult, len(common.Registry))
ChanCap == Cardinality(Registry)

\* readResultsFile / writeResultsFile: the whole ledger, read and written
readResultsFile(f) == f

writeResultsFile(led) == led

\* spawnWorkers: the callback is invoked once per artifact of the registry
Dispatched(a) == mpc = "spawn" /\ att[a].pc = "queued"

\* spawnWorkers returns after all callbacks completed
AllReturned == \A a \in Registry : att[a].pc = "returned"

\* spawnWorkers returns an error if a callback returned one
PoolErr == \E a \in Registry : att[a].err # Nil

Att0 ==
  [pc |-> "queued", called |-> FALSE, started |-> FALSE, tags |-> << >>, vm |-> << >>,
   polls |-> 0, ti |-> 0, img |-> << >>, wait |-> "none", res |-> << >>, err |-> Nil, log |-> << >>]

CheckpointOps == {"gate1", "gate2", "gatew", "gate3", "gatet"}

\* one entry of an attempt's operation log; c tells that the cancellation
\* signal was fired when a checkpoint was evaluated or a failing operation
\* returned (an operation that succeeded is followed by its checkpoint)
Entry(op, ok, n) ==
  [op |-> op, ok |-> ok, n |-> n, c |-> cancelled /\ (~ok \/ op \in CheckpointOps)]

Logged(r, op, ok, n) == [r EXCEPT !.log = Append(@, Entry(op, ok, n))]

\* variant: the checkpoints test for another context error and never see the signal
CanceledAsDeadline == FALSE

\* variant: the workers share a context that the pool cancels at the first
\* error a callback returns
CanceledOrSiblingFailed == cancelled \/ \E b \in Registry : att[b].err # Nil

\* errors.Is(ctx.Err(), context.Canceled)
Canceled == cancelled

\* r, ok := results[a.Metadata().Describe()]: the first statement of the
\* callback reads the ledger entry of its artifact
ReadsLedger(a) == att[a].called

\* variant: only a missing entry is skipped, the Verified flag is not looked at
SkipMissingOnly(led, a) == a \notin DOMAIN led

\* r, ok := results[key]; !ok || r.Verified
Skip(led, a) == a \notin DOMAIN led \/ led[a].Verified

\* variant: the guard on an empty tag list is missing
NoTagsUnchecked(r) == FALSE

\* len(result.Tags) == 0
NoTags(r) == Len(r.Tags) = 0

\* randName(artifact.Metadata().Name)
randName(name, s) == [base |-> name, suffix |-> s]

\* variant: the result carries only the tag that was booted
SuccessFirstTag(tags) == [Tags |-> <<tags[1]>>, Verified |-> TRUE]

\* &api.ArtifactResult{Tags: result.Tags, Verified: true}
Success(tags) == [Tags |-> tags, Verified |-> TRUE]

\* variant: the merge keeps an entry the ledger already has
MergeEntryKeep(led, item) ==
  [k \in DOMAIN led \cup {item.Key} |-> IF k \in DOMAIN led THEN led[k] ELSE item.Value]

\* results[result.Key] = result.Value
MergeEntry(led, item) ==
  [k \in DOMAIN led \cup {item.Key} |-> IF k = item.Key THEN item.Value ELSE led[k]]

\* the rest of the callback once verifyArtifact returned r.res, r.err:
\* send the result if there is one, return the error; the locals of
\* verifyArtifact (vm, the poll count, the loop index) are gone
CallbackReturn(a, r) ==
  /\ r.res # << >> => Len(chan) < ChanCap /\ ~closed
  /\ chan' = IF r.res # << >> THEN Append(chan, [Key |-> a, Value |-> r.res[1]]) ELSE chan
  /\ att' = [att EXCEPT ![a] =
               [r EXCEPT !.pc = "returned", !.vm = << >>, !.polls = 0, !.ti = 0]]

\* variant: the delete is issued on the success path only, error and
\* cancellation returns leave without it
UnwindLeak(a, r, res, err) ==
  IF res = << >>
    THEN CallbackReturn(a, [r EXCEPT !.res = res, !.err = err])
    ELSE att' = [att EXCEPT ![a] = [r EXCEPT !.pc = "deleting", !.res = res, !.err = err]]

\* a return statement of verifyArtifact after the defer was registered
Unwind(a, r, res, err) ==
  att' = [att EXCEPT ![a] = [r EXCEPT !.pc = "deleting", !.res = res, !.err = err]]

\* a cancellation checkpoint: if errors.Is(ctx.Err(), context.Canceled) { return nil, nil }
Gate(r, g) == Logged(r, g, ~Canceled, 0)

Init ==
  /\ file \in Ledgers
  /\ ledger = EmptyLedger
  /\ ledger0 = EmptyLedger
  /\ cancelled = FALSE
  /\ att = [a \in Registry |-> Att0]
  /\ chan = << >>
  /\ closed = FALSE
  /\ cluster = {}
  /\ mpc = "start"
  /\ werr = FALSE
  /\ saves = 0
  /\ savedArg = << >>
  /\ exit = 0
  /\ run = 1
  /\ persisted = {}

\* readResultsFile and GetKubevirtClient; either failing is fatal
Start ==
  /\ mpc = "start"
  /\ \E loadOk \in BOOLEAN, clientOk \in BOOLEAN :
       IF loadOk /\ clientOk
         THEN /\ ledger' = readResultsFile(file)
              /\ ledger0' = readResultsFile(file)
              /\ mpc' = "spawn"
              /\ exit' = exit
         ELSE /\ mpc' = "fatal0"
              /\ exit' = 1
              /\ UNCHANGED <<ledger, ledger0>>
  /\ UNCHANGED <<file, cancelled, att, chan, closed, cluster, werr, saves, savedArg, run,
                 persisted>>

\* the context of the run is cancelled from outside
Cancel ==
  /\ mpc \in {"start", "spawn", "merge"}
  /\ ~cancelled
  /\ cancelled' = TRUE
  /\ UNCHANGED <<file, ledger, ledger0, att, chan, closed, cluster, mpc, werr, saves,
                 savedArg, exit, run, persisted>>

\* options.Registry
OptRegistry == "quay.io/containerdisks"

\* variant: the image of the last tag is booted
imgRefLast(tags) == <<OptRegistry, tags[Len(tags)]>>

\* imgRef := path.Join(options.Registry, result.Tags[0]); the index
\* expression panics on an empty slice, which the return of lines 94-97 excludes
imgRef(tags) ==
  IF tags = << >> THEN <<OptRegistry, "index out of range">> ELSE <<OptRegistry, tags[1]>>

\* the callback up to the Create call
Callback(a) ==
  /\ Dispatched(a)
  /\ IF Skip(ledger, a)
       THEN CallbackReturn(a, [att[a] EXCEPT !.called = TRUE])
       ELSE LET r0 == [att[a] EXCEPT !.called = TRUE, !.started = TRUE,
                                     !.tags = ledger[a].Tags] IN
            IF NoTags(ledger[a])
              THEN CallbackReturn(a, r0)
              ELSE \E gen \in BOOLEAN, s \in Suffixes :
                     IF ~gen
                       THEN CallbackReturn(a, [Logged(r0, "createVM", FALSE, 0)
                                                 EXCEPT !.img = <<imgRef(r0.tags)>>,
                                                        !.err = Err("keygen")])
                       ELSE LET r1 == Gate([Logged(r0, "createVM", TRUE, 0)
                                               EXCEPT !.img = <<imgRef(r0.tags)>>,
                                                      !.vm = <<randName(Name(a), s)>>],
                                            "gate1") IN
                            IF Canceled
                              THEN CallbackReturn(a, r1)
                              ELSE /\ att' = [att EXCEPT ![a] = [r1 EXCEPT !.pc = "creating"]]
                                   /\ chan' = chan
  /\ UNCHANGED <<file, ledger, ledger0, cancelled, closed, cluster, mpc, werr, saves,
                 savedArg, exit, run, persisted>>

\* spawnWorkers forwards cancellation: a cancelled pool may drop an artifact
\* it has not yet handed to the callback
PoolSkip(a) ==
  /\ Dispatched(a)
  /\ cancelled
  /\ att' = [att EXCEPT ![a] = [@ EXCEPT !.pc = "returned"]]
  /\ UNCHANGED <<file, ledger, ledger0, cancelled, chan, closed, cluster, mpc, werr, saves,
                 savedArg, exit, run, persisted>>

\* the namespace holds a VM of that name (1) or not (0)
Exists(name) == IF name \in cluster THEN 1 ELSE 0

\* variant: the defer is registered before the error of Create is examined,
\* so an attempt whose create failed deletes the VM of that name
CreateReturnDeferFirst(a) ==
  /\ att[a].pc = "creating"
  /\ \E ok \in BOOLEAN :
       /\ ok => att[a].vm[1] \notin cluster
       /\ chan' = chan
       /\ LET r1 == Logged(att[a], "create", ok, Exists(att[a].vm[1])) IN
          IF ~ok
            THEN /\ Unwind(a, r1, << >>, Err("create"))
                 /\ cluster' = cluster
            ELSE /\ cluster' = cluster \cup {att[a].vm[1]}
                 /\ LET r2 == Gate(r1, "gate2") IN
                    IF Canceled
                      THEN Unwind(a, r2, << >>, Nil)
                      ELSE att' = [att EXCEPT ![a] = [r2 EXCEPT !.pc = "waiting"]]
  /\ UNCHANGED <<file, ledger, ledger0, cancelled, closed, mpc, werr, saves, savedArg,
                 exit, run, persisted>>

\* vmClient.Create returns; the defer is registered; second checkpoint
CreateReturn(a) ==
  /\ att[a].pc = "creating"
  /\ \E ok \in BOOLEAN :
       /\ ok => att[a].vm[1] \notin cluster
       /\ LET r1 == Logged(att[a], "create", ok, Exists(att[a].vm[1])) IN
          IF ~ok
            THEN /\ CallbackReturn(a, [r1 EXCEPT !.err = Err("create")])
                 /\ cluster' = cluster
            ELSE /\ cluster' = cluster \cup {att[a].vm[1]}
                 /\ chan' = chan
                 /\ LET r2 == Gate(r1, "gate2") IN
                    IF Canceled
                      THEN Unwind(a, r2, << >>, Nil)
                      ELSE att' = [att EXCEPT ![a] = [r2 EXCEPT !.pc = "waiting"]]
  /\ UNCHANGED <<file, ledger, ledger0, cancelled, closed, mpc, werr, saves, savedArg,
                 exit, run, persisted>>

\* variant: a failed wait is recorded as a result that marks the artifact
\* as not verified
WaitFailedMarks(a, r, e) ==
  LET r1 == Gate([r EXCEPT !.wait = e], "gatew") IN
  IF Canceled THEN Unwind(a, r1, << >>, Nil)
              ELSE Unwind(a, r1, <<[Tags |-> << >>, Verified |-> FALSE]>>, Err(e))

\* variant: the return is silent only if the wait itself was ended by the
\* cancellation; a timeout or a fetch error is returned whatever the signal
WaitFailedByKind(a, r, e) ==
  LET r1 == Gate([r EXCEPT !.wait = e], "gatew") IN
  IF e = "ctx" THEN Unwind(a, r1, << >>, Nil) ELSE Unwind(a, r1, << >>, Err(e))

\* waitVMReady returned the error e
WaitFailed(a, r, e) ==
  LET r1 == Gate([r EXCEPT !.wait = e], "gatew") IN
  IF Canceled THEN Unwind(a, r1, << >>, Nil) ELSE Unwind(a, r1, << >>, Err(e))

\* one iteration of the poll of waitVMReady
Poll(a) ==
  /\ att[a].pc = "waiting"
  /\ \E out \in {"ready", "notready", "fetch", "ctx"} :
       /\ out = "ctx" => cancelled /\ att[a].polls > 0
       /\ CASE out = "ready" ->
                 att' = [att EXCEPT ![a] =
                    [Logged(att[a], "get", TRUE, 0) EXCEPT !.wait = "ready", !.pc = "getvmi"]]
            [] out = "notready" ->
                 LET r1 == [Logged(att[a], "get", TRUE, 0) EXCEPT !.polls = @ + 1] IN
                 IF r1.polls < MaxPolls
                   THEN att' = [att EXCEPT ![a] = r1]
                   ELSE WaitFailed(a, r1, "timeout")
            [] out = "fetch" -> WaitFailed(a, Logged(att[a], "get", FALSE, 0), "fetch")
            [] out = "ctx" -> WaitFailed(a, att[a], "ctx")
  /\ UNCHANGED <<file, ledger, ledger0, cancelled, chan, closed, cluster, mpc, werr, saves,
                 savedArg, exit, run, persisted>>

\* variant: the loop leaves with success after the first test
RunTestsFirstOnly(a, r, i) ==
  IF i <= 1 /\ i <= Tests(a)
    THEN att' = [att EXCEPT ![a] = [r EXCEPT !.pc = "testing", !.ti = i]]
    ELSE att' = [att EXCEPT ![a] = [r EXCEPT !.pc = "deleting",
                                              !.res = <<[Tags |-> r.tags, Verified |-> TRUE]>>]]

\* the test loop from test number i on (i > the number of tests: success)
RunTests(a, r, i) ==
  IF i <= Tests(a)
    THEN att' = [att EXCEPT ![a] = [r EXCEPT !.pc = "testing", !.ti = i]]
    ELSE Unwind(a, r, <<Success(r.tags)>>, Nil)

\* client.VirtualMachineInstance(ns).Get returns; third checkpoint
GetVMIReturn(a) ==
  /\ att[a].pc = "getvmi"
  /\ \E ok \in BOOLEAN :
       LET r1 == Logged(att[a], "getvmi", ok, 0) IN
       IF ~ok
         THEN Unwind(a, r1, << >>, Err("vmi"))
         ELSE LET r2 == Gate(r1, "gate3") IN
              IF Canceled THEN Unwind(a, r2, << >>, Nil) ELSE RunTests(a, r2, 1)
  /\ UNCHANGED <<file, ledger, ledger0, cancelled, chan, closed, cluster, mpc, werr, saves,
                 savedArg, exit, run, persisted>>

\* variant: a failing test does not end the loop; the attempt fails with
\* the error of the last test that failed
TestReturnKeepsGoing(a) ==
  /\ att[a].pc = "testing"
  /\ \E ok \in BOOLEAN :
       LET i == att[a].ti
           r1 == Logged(att[a], "test", ok, i) IN
       IF ~ok
         THEN IF i < Tests(a)
                THEN att' = [att EXCEPT ![a] = [r1 EXCEPT !.ti = i + 1]]
                ELSE Unwind(a, r1, << >>, TestErr(i))
         ELSE LET r2 == Gate(r1, "gatet") IN
              IF Canceled THEN Unwind(a, r2, << >>, Nil) ELSE RunTests(a, r2, i + 1)
  /\ UNCHANGED <<file, ledger, ledger0, cancelled, chan, closed, cluster, mpc, werr, saves,
                 savedArg, exit, run, persisted>>

\* test function number ti returns; checkpoint after the test
TestReturn(a) ==
  /\ att[a].pc = "testing"
  /\ \E ok \in BOOLEAN :
       LET i == att[a].ti
           r1 == Logged(att[a], "test", ok, i) IN
       IF ~ok
         THEN Unwind(a, r1, << >>, TestErr(i))
         ELSE LET r2 == Gate(r1, "gatet") IN
              IF Canceled THEN Unwind(a, r2, << >>, Nil) ELSE RunTests(a, r2, i + 1)
  /\ UNCHANGED <<file, ledger, ledger0, cancelled, chan, closed, cluster, mpc, werr, saves,
                 savedArg, exit, run, persisted>>

\* variant: the delete names the VM by the artifact's base name alone, so
\* the call removes nothing
DeferDeleteBaseName(a) ==
  /\ att[a].pc = "deleting"
  /\ \E ok \in BOOLEAN :
       /\ cluster' = IF ok THEN cluster \ {randName(Name(a), "")} ELSE cluster
       /\ CallbackReturn(a, Logged(att[a], "delete", ok, 0))
  /\ UNCHANGED <<file, ledger, ledger0, cancelled, closed, mpc, werr, saves, savedArg,
                 exit, run, persisted>>

\* variant: the error of a failed delete replaces the outcome of the attempt,
\* as it would with named return values
DeferDeleteEscalates(a) ==
  /\ att[a].pc = "deleting"
  /\ \E ok \in BOOLEAN :
       /\ cluster' = IF ok THEN cluster \ {att[a].vm[1]} ELSE cluster
       /\ LET r == Logged(att[a], "delete", ok, 0) IN
          CallbackReturn(a, IF ok THEN r ELSE [r EXCEPT !.res = << >>, !.err = Err("delete")])
  /\ UNCHANGED <<file, ledger, ledger0, cancelled, closed, mpc, werr, saves, savedArg,
                 exit, run, persisted>>

\* the deferred vmClient.Delete, then the rest of the callback
DeferDelete(a) ==
  /\ att[a].pc = "deleting"
  /\ \E ok \in BOOLEAN :
       /\ cluster' = IF ok THEN cluster \ {att[a].vm[1]} ELSE cluster
       /\ CallbackReturn(a, Logged(att[a], "delete", ok, 0))
  /\ UNCHANGED <<file, ledger, ledger0, cancelled, closed, mpc, werr, saves, savedArg,
                 exit, run, persisted>>

\* spawnWorkers returns once every callback returned; close(resultsChan)
SpawnReturn ==
  /\ mpc = "spawn"
  /\ AllReturned
  /\ werr' = PoolErr
  /\ closed' = TRUE
  /\ mpc' = "merge"
  /\ UNCHANGED <<file, ledger, ledger0, cancelled, att, chan, cluster, saves, savedArg,
                 exit, run, persisted>>

\* variant: the results are merged while the workers are still running
MergeOneEarly ==
  /\ mpc \in {"spawn", "merge"}
  /\ chan # << >>
  /\ ledger' = MergeEntry(ledger, Head(chan))
  /\ chan' = Tail(chan)
  /\ UNCHANGED <<file, ledger0, cancelled, att, closed, cluster, mpc, werr, saves,
                 savedArg, exit, run, persisted>>

\* one iteration of: for result := range resultsChan
MergeOne ==
  /\ mpc = "merge"
  /\ chan # << >>
  /\ ledger' = MergeEntry(ledger, Head(chan))
  /\ chan' = Tail(chan)
  /\ UNCHANGED <<file, ledger0, cancelled, att, closed, cluster, mpc, werr, saves,
                 savedArg, exit, run, persisted>>

\* variant: the ledger is written as it was loaded, before the merge
SaveStale ==
  /\ mpc = "merge"
  /\ chan = << >>
  /\ closed
  /\ \E ok \in BOOLEAN :
       /\ file' = IF ok THEN writeResultsFile(ledger0) ELSE file
       /\ persisted' = IF ok THEN persisted \cup {a \in Registry : att[a].res # << >>}
                              ELSE persisted
       /\ mpc' = IF ok /\ ~werr THEN "exit" ELSE "fatal"
       /\ exit' = IF ok /\ ~werr THEN 0 ELSE 1
  /\ saves' = saves + 1
  /\ savedArg' = <<ledger0>>
  /\ UNCHANGED <<ledger, ledger0, cancelled, att, chan, closed, cluster, werr, run>>

\* variant: the ledger is written before the results channel is drained
SaveUndrained ==
  /\ mpc = "merge"
  /\ closed
  /\ \E ok \in BOOLEAN :
       /\ file' = IF ok THEN writeResultsFile(ledger) ELSE file
       /\ persisted' = IF ok THEN persisted \cup {a \in Registry : att[a].res # << >>}
                              ELSE persisted
       /\ mpc' = IF ok /\ ~werr THEN "exit" ELSE "fatal"
       /\ exit' = IF ok /\ ~werr THEN 0 ELSE 1
  /\ saves' = saves + 1
  /\ savedArg' = <<ledger>>
  /\ UNCHANGED <<ledger, ledger0, cancelled, att, chan, closed, cluster, werr, run>>

\* writeResultsFile, then logrus.Fatal if it or a worker failed
Save ==
  /\ mpc = "merge"
  /\ chan = << >>
  /\ closed
  /\ \E ok \in BOOLEAN :
       /\ file' = IF ok THEN writeResultsFile(ledger) ELSE file
       /\ persisted' = IF ok THEN persisted \cup {a \in Registry : att[a].res # << >>}
                              ELSE persisted
       /\ mpc' = IF ok /\ ~werr THEN "exit" ELSE "fatal"
       /\ exit' = IF ok /\ ~werr THEN 0 ELSE 1
  /\ saves' = saves + 1
  /\ savedArg' = <<ledger>>
  /\ UNCHANGED <<ledger, ledger0, cancelled, att, chan, closed, cluster, werr, run>>

\* the command is run again on the results file
NextRun ==
  /\ mpc \in {"exit", "fatal", "fatal0"}
  /\ run < MaxRuns
  /\ run' = run + 1
  /\ mpc' = "start"
  /\ ledger' = EmptyLedger
  /\ ledger0' = EmptyLedger
  /\ cancelled' = FALSE
  /\ att' = [a \in Registry |-> Att0]
  /\ chan' = << >>
  /\ closed' = FALSE
  /\ werr' = FALSE
  /\ saves' = 0
  /\ savedArg' = << >>
  /\ exit' = 0
  /\ UNCHANGED <<file, cluster, persisted>>

Next ==
  \/ Start
  \/ Cancel
  \/ \E a \in Registry : Callback(a)
  \/ \E a \in Registry : PoolSkip(a)
  \/ \E a \in Registry : CreateReturn(a)
  \/ \E a \in Registry : Poll(a)
  \/ \E a \in Registry : GetVMIReturn(a)
  \/ \E a \in Registry : TestReturn(a)
  \/ \E a \in Registry : DeferDelete(a)
  \/ SpawnReturn
  \/ MergeOne
  \/ Save
  \/ NextRun

Spec == Init /\ [][Next]_vars

\* ------------------------------------------------------------- properties

\* the positions of attempt a's log holding operation op
At(a, op) == {i \in DOMAIN att[a].log : att[a].log[i].op = op}

\* ... with outcome ok
AtOk(a, op, ok) == {i \in At(a, op) : att[a].log[i].ok = ok}

\* a checkpoint of attempt a was evaluated while the signal was fired
GateHit(a) == {i \in DOMAIN att[a].log : att[a].log[i].op \in CheckpointOps /\ att[a].log[i].c}

\* the ledger entry of key k, << >> if there is none
EntryOf(led, k) == IF k \in DOMAIN led THEN <<led[k]>> ELSE << >>

\* the merge loop of this run has ended
MergeDone == (mpc = "merge" /\ chan = << >>) \/ saves > 0

\* create succeeded, the wait saw ready, the handle was fetched, every test
\* passed and no checkpoint saw the signal
AllPassed(a) ==
  /\ AtOk(a, "create", TRUE) # {}
  /\ att[a].wait = "ready"
  /\ AtOk(a, "getvmi", TRUE) # {}
  /\ AtOk(a, "test", FALSE) = {}
  /\ \A n \in 1..Tests(a) : \E i \in AtOk(a, "test", TRUE) : att[a].log[i].n = n
  /\ GateHit(a) = {}

\* C1: an attempt that returned issued as many VM deletes as it had
\* successful VM creates, which is 0 or 1; a running attempt never issued
\* more deletes than successful creates.
C1_DeletePerCreate ==
  \A a \in Registry :
    /\ Cardinality(AtOk(a, "create", TRUE)) <= 1
    /\ Cardinality(At(a, "delete")) <= Cardinality(AtOk(a, "create", TRUE))
    /\ att[a].pc = "returned" =>
         Cardinality(At(a, "delete")) = Cardinality(AtOk(a, "create", TRUE))

\* one attempt ended by a failing test, the other at the checkpoint after
\* create, both with their delete issued
C1_Witness ==
  /\ att["fedora:39"].pc = "returned"
  /\ att["fedora:39"].err.kind = "test"
  /\ Cardinality(At("fedora:39", "delete")) = 1
  /\ att["fedora:40"].pc = "returned"
  /\ \E i \in GateHit("fedora:40") : att["fedora:40"].log[i].op = "gate2"
  /\ Cardinality(At("fedora:40", "delete")) = 1

\* C2: a ledger entry that is verified and was not verified when the run
\* loaded the ledger comes from an attempt in which create succeeded, the
\* wait saw ready, the handle was fetched, all tests passed and no
\* checkpoint saw the signal; it carries the tags of the loaded entry.
C2_VerifiedOnlyIfAllPassed ==
  \A k \in DOMAIN ledger :
    (ledger[k].Verified /\ EntryOf(ledger0, k) # <<ledger[k]>>) =>
      /\ k \in Registry
      /\ AllPassed(k)
      /\ k \in DOMAIN ledger0
      /\ ~ledger0[k].Verified
      /\ ledger[k].Tags = ledger0[k].Tags

C2_Witness ==
  /\ mpc = "exit"
  /\ EntryOf(ledger, "fedora:39") = <<[Tags |-> <<"39", "latest">>, Verified |-> TRUE]>>
  /\ EntryOf(ledger0, "fedora:39") = <<[Tags |-> <<"39", "latest">>, Verified |-> FALSE]>>

\* C3: once a checkpoint of an attempt was evaluated with the signal fired,
\* the attempt issues nothing but the delete of its VM, returns no result
\* and no error, and the ledger entry of its artifact stays what the run
\* loaded, through the merge.
C3_CheckpointUnwinds ==
  \A a \in Registry :
    \A i \in GateHit(a) :
      /\ \A j \in DOMAIN att[a].log : j > i => att[a].log[j].op = "delete"
      /\ att[a].pc \in {"deleting", "returned"}
      /\ att[a].res = << >>
      /\ att[a].err = Nil
      /\ EntryOf(ledger, a) = EntryOf(ledger0, a)
      /\ \A n \in DOMAIN chan : chan[n].Key # a

\* the checkpoint after the last test saw the signal; the run merged the
\* other artifact's result
C3_Witness ==
  /\ MergeDone
  /\ \E i \in GateHit("fedora:39") :
       /\ att["fedora:39"].log[i].op = "gatet"
       /\ i > 1
       /\ att["fedora:39"].log[i - 1].n = Tests("fedora:39")
  /\ At("fedora:39", "delete") # {}
  /\ att["fedora:40"].res # << >>
  /\ EntryOf(ledger, "fedora:40") = att["fedora:40"].res

\* C4: an attempt whose blocking operation (create, readiness wait, handle
\* fetch, test) returned an error with the signal fired during the
\* operation returns no error and no result.
C4_CancelNeverError ==
  \A a \in Registry :
    att[a].pc \in {"deleting", "returned"} =>
      \A i \in DOMAIN att[a].log :
        ( /\ att[a].log[i].op \in {"create", "get", "getvmi", "test"}
          /\ ~att[a].log[i].ok
          /\ att[a].log[i].c ) =>
        (att[a].err = Nil /\ att[a].res = << >>)

\* C5: while the results are merged, the ledger entry of a key whose result
\* has been taken from the channel is that result and every other entry is
\* the loaded one; when the merge has ended this is so for every result, in
\* whatever order the results were queued.
C5_MergeCorrect ==
  mpc \in {"merge", "exit", "fatal"} =>
    LET queued == {chan[n].Key : n \in DOMAIN chan} IN
    /\ \A k \in Registry \cup DOMAIN ledger0 \cup DOMAIN ledger :
         EntryOf(ledger, k) =
           IF k \in Registry /\ att[k].res # << >> /\ k \notin queued
             THEN att[k].res
             ELSE EntryOf(ledger0, k)
    /\ MergeDone => queued = {}

\* both attempts produced a result and the merge has ended
C5_Witness ==
  /\ MergeDone
  /\ \A a \in Registry : att[a].res # << >> /\ EntryOf(ledger, a) = att[a].res
  /\ ledger # ledger0

\* C6: for an artifact whose loaded entry is verified, or that has no
\* entry, no attempt is started: nothing is created, fetched, deleted or
\* tested, nothing is sent and the callback returns no error.
C6_VerifiedOrMissingSkipped ==
  \A a \in Registry :
    (a \notin DOMAIN ledger0 \/ ledger0[a].Verified) =>
      /\ ~att[a].started
      /\ att[a].log = << >>
      /\ att[a].vm = << >>
      /\ att[a].res = << >>
      /\ att[a].err = Nil
      /\ \A n \in DOMAIN chan : chan[n].Key # a

\* the callback of a verified artifact returned while the other attempt ran
C6_Witness ==
  /\ att["fedora:39"].called
  /\ att["fedora:39"].pc = "returned"
  /\ EntryOf(ledger0, "fedora:39") = <<[Tags |-> <<"39", "latest">>, Verified |-> TRUE]>>
  /\ At("fedora:40", "create") # {}

\* C7 as stated: an artifact without a ledger entry is verified by a run
\* that ends well: its VM was created and its entry is verified.
C7_NoEntryIsVerified ==
  \A a \in Registry :
    (mpc = "exit" /\ ~cancelled /\ a \notin DOMAIN ledger0) =>
      /\ AtOk(a, "create", TRUE) # {}
      /\ EntryOf(ledger, a) # << >>
      /\ ledger[a].Verified

\* C7 amended: an artifact whose loaded entry has tags and is not verified
\* is attempted when its callback is invoked; its VM is named with the
\* artifact's base name and a generated suffix; when create, the wait, the
\* handle fetch and all tests succeed with no checkpoint seeing the signal,
\* the merged entry is {its tags, Verified: true} and one delete was issued.
C7_UnverifiedEntryIsVerified ==
  \A a \in Registry :
    (a \in DOMAIN ledger0 /\ ~ledger0[a].Verified /\ ledger0[a].Tags # << >>) =>
      /\ att[a].called => att[a].started /\ At(a, "createVM") # {}
      /\ (AtOk(a, "createVM", TRUE) # {} /\ GateHit(a) = {}) =>
           (att[a].pc = "creating" \/ At(a, "create") # {})
      /\ att[a].pc \in {"creating", "waiting", "getvmi", "testing", "deleting"} =>
           /\ att[a].vm # << >>
           /\ att[a].vm[1].base = Name(a)
           /\ att[a].vm[1].suffix \in Suffixes
           /\ att[a].pc # "creating" => att[a].vm[1] \in cluster
      /\ (MergeDone /\ AllPassed(a)) =>
           /\ EntryOf(ledger, a) = <<[Tags |-> ledger0[a].Tags, Verified |-> TRUE]>>
           /\ Cardinality(At(a, "delete")) = 1

C7_Witness ==
  /\ MergeDone
  /\ AllPassed("fedora:39")
  /\ EntryOf(ledger0, "fedora:39") = <<[Tags |-> <<"39", "latest">>, Verified |-> FALSE]>>
  /\ At("fedora:39", "delete") # {}

\* C8 as stated: a run on the ledger file to which an earlier run wrote a
\* verified result issues no VM create call.
C8_SecondRunNoCreate ==
  (run >= 2 /\ persisted # {} /\ mpc \in {"spawn", "merge"}) =>
    \A a \in Registry : At(a, "create") = {}

\* C8 amended: a run that follows another issues no VM create call for an
\* artifact whose result an earlier run wrote to the ledger file, which
\* marks it verified; it issues one only for an artifact the file holds
\* as not verified.
C8_SecondRunSkipsVerified ==
  /\ \A a \in persisted : a \in DOMAIN file /\ file[a].Verified
  /\ run >= 2 =>
       \A a \in Registry :
         /\ (mpc \in {"spawn", "merge"} /\ a \in persisted) =>
              (~att[a].started /\ At(a, "create") = {})
         /\ (mpc \in {"spawn", "merge"} /\ At(a, "create") # {}) =>
              (a \in DOMAIN file /\ ~file[a].Verified)

\* the second run skipped the artifact the first run verified and
\* attempted the other one again
C8_Witness ==
  /\ run = 2
  /\ mpc = "merge"
  /\ persisted = {"fedora:39"}
  /\ att["fedora:39"].called
  /\ At("fedora:40", "create") # {}

\* C9: verifyArtifact called for an entry with zero tags returns no result
\* and no error, with no VM definition generated and no create, get, delete
\* or test issued, the signal fired or not.
C9_NoTagsNoWork ==
  \A a \in Registry :
    (a \in DOMAIN ledger0 /\ ~ledger0[a].Verified /\ ledger0[a].Tags = << >>
       /\ att[a].called) =>
      /\ att[a].started
      /\ att[a].pc = "returned"
      /\ att[a].res = << >>
      /\ att[a].err = Nil
      /\ att[a].log = << >>
      /\ att[a].vm = << >>
      /\ \A n \in DOMAIN chan : chan[n].Key # a

\* an attempt on an entry without tags returned in a cancelled run
C9_Witness ==
  /\ cancelled
  /\ att["fedora:39"].started
  /\ att["fedora:39"].tags = << >>
  /\ att["fedora:39"].pc = "returned"
  /\ GateHit("fedora:40") # {}

\* C10: a run that loaded the ledger and has a client calls
\* writeResultsFile once, after every callback returned and the closed
\* channel was drained into the ledger, before it exits; the ledger it
\* hands over holds every result an attempt produced.
C10_SaveOnceAfterDrain ==
  /\ saves <= 1
  /\ mpc \in {"exit", "fatal"} => saves = 1
  /\ mpc \in {"start", "fatal0", "spawn", "merge"} => saves = 0
  /\ (mpc = "fatal0" \/ exit = 1) => mpc \in {"fatal0", "fatal"}
  /\ saves = 1 =>
       /\ AllReturned
       /\ closed
       /\ chan = << >>
       /\ savedArg = <<ledger>>
       /\ \A a \in Registry :
            att[a].res # << >> => EntryOf(savedArg[1], a) = att[a].res

\* a cancelled run in which one attempt failed and the other produced a
\* result has written the ledger and ends with a non-zero status
C10_Witness ==
  /\ mpc = "fatal"
  /\ exit = 1
  /\ werr
  /\ cancelled
  /\ saves = 1
  /\ \E a \in Registry : att[a].res # << >>

\* C11: an attempt that ends with an error (create, timeout, status fetch,
\* handle fetch, test) has no result, sends nothing, and the ledger entry
\* of its artifact stays what the run loaded, in memory and as written.
C11_ErrorLeavesLedger ==
  \A a \in Registry :
    (att[a].pc \in {"deleting", "returned"} /\ att[a].err # Nil) =>
      /\ att[a].res = << >>
      /\ \A n \in DOMAIN chan : chan[n].Key # a
      /\ EntryOf(ledger, a) = EntryOf(ledger0, a)
      /\ saves > 0 => EntryOf(savedArg[1], a) = EntryOf(ledger0, a)

\* the readiness wait of one attempt timed out, its VM delete was issued,
\* and the run merged the other artifact's result and wrote the ledger
C11_Witness ==
  /\ saves = 1
  /\ att["fedora:39"].err = Err("timeout")
  /\ At("fedora:39", "delete") # {}
  /\ EntryOf(ledger, "fedora:39") = EntryOf(ledger0, "fedora:39")
  /\ att["fedora:40"].res # << >>

\* the step by which verifyArtifact of artifact a returns to the callback
Returns(a) == att[a].pc # "returned" /\ att'[a].pc = "returned"

\* C12 as stated: when verifyArtifact returns, the VM it created is no
\* longer in the namespace.
C12_NoVMSurvives ==
  [][\A a \in Registry :
       (Returns(a) /\ att[a].pc = "deleting") => att[a].vm[1] \notin cluster']_vars

\* C12 amended: when verifyArtifact returns after a successful create, the
\* last thing it did was to issue the delete of the VM it created; the VM
\* is gone from the namespace if that call succeeded and is still there if
\* it failed.
C12_DeleteIssuedAtReturn ==
  [][\A a \in Registry :
       LET log2 == att'[a].log IN
       (Returns(a) /\ \E i \in DOMAIN log2 : log2[i].op = "create" /\ log2[i].ok) =>
         /\ att[a].pc = "deleting"
         /\ att[a].vm # << >>
         /\ att[a].vm[1] \in cluster
         /\ log2[Len(log2)].op = "delete"
         /\ log2[Len(log2)].ok <=> att[a].vm[1] \notin cluster']_vars

\* an attempt returned after its delete call succeeded and the namespace
\* is empty
C12_Witness ==
  /\ run = 1
  /\ att["fedora:39"].pc = "returned"
  /\ AtOk("fedora:39", "delete", TRUE) # {}
  /\ att["fedora:40"].pc = "queued"
  /\ cluster = {}

\* C13 as stated: no worker callback reads the ledger.
C13_NoWorkerReads ==
  \A a \in Registry : ~ReadsLedger(a)

\* C13 amended: a worker callback reads the ledger entry of its own
\* artifact once, when it is invoked, and never writes the ledger; the
\* ledger is written by the load and then only by the merge loop, after
\* every callback returned and the results channel was closed.
C13_LedgerWrittenByMergeOnly ==
  [][/\ ledger' # ledger =>
          \/ mpc = "start" /\ mpc' = "spawn"
          \/ mpc' = "start"
          \/ /\ mpc = "merge"
             /\ closed
             /\ AllReturned
             /\ att' = att
             /\ chan # << >>
             /\ DOMAIN ledger' = DOMAIN ledger \cup {Head(chan).Key}
     /\ \A a \in Registry :
          (ReadsLedger(a)' /\ ~ReadsLedger(a)) =>
            (mpc = "spawn" /\ att[a].pc = "queued" /\ ledger' = ledger)
     /\ \A a \in Registry :
          (ReadsLedger(a) /\ mpc' # "start") => (ReadsLedger(a)' /\ att[a].pc # "queued")
    ]_vars

\* both callbacks read their entries and returned; the merge loop then
\* wrote one result into the ledger
C13_Witness ==
  /\ mpc = "merge"
  /\ closed
  /\ \A a \in Registry : ReadsLedger(a) /\ att[a].pc = "returned"
  /\ ledger # ledger0

\* the positions of the results channel holding a result of artifact a
Queued(a) == {n \in DOMAIN chan : chan[n].Key = a}

\* C14: the channel holds at most one result per artifact and never more
\* than its capacity; an attempt about to send finds room and an open
\* channel, so it does not block; a result is queued only by a callback
\* that returned, and the channel is closed only after all of them did.
C14_ChannelNeverBlocks ==
  /\ Len(chan) <= ChanCap
  /\ closed => AllReturned
  /\ \A a \in Registry :
       /\ Cardinality(Queued(a)) <= 1
       /\ Queued(a) # {} => (att[a].pc = "returned" /\ att[a].res # << >>)
       /\ (att[a].pc = "deleting" /\ att[a].res # << >>) =>
            (~closed /\ Len(chan) < ChanCap)
       /\ (att[a].pc = "returned" /\ att[a].res # << >> /\ mpc = "spawn") => Queued(a) # {}

\* every artifact sent its result and the channel was closed full
C14_Witness ==
  /\ closed
  /\ Len(chan) = Cardinality(Registry)
  /\ \A a \in Registry : Queued(a) # {}

IsTest(e) == e.op = "test"

\* C15: the tests of an attempt are invoked in their order, each after the
\* one before it returned no error; a test that returns an error is the
\* last one invoked: the attempt ends with that test's error and no
\* result, nothing but the VM delete follows, and the ledger entry stays
\* what the run loaded.
C15_TestsSequential ==
  \A a \in Registry :
    LET ts == SelectSeq(att[a].log, IsTest) IN
    /\ Len(ts) <= Tests(a)
    /\ \A k \in DOMAIN ts : ts[k].n = k /\ (k < Len(ts) => ts[k].ok)
    /\ att[a].pc = "testing" =>
         (att[a].ti = Len(ts) + 1 /\ \A k \in DOMAIN ts : ts[k].ok)
    /\ (Len(ts) > 0 /\ ~ts[Len(ts)].ok) =>
         /\ att[a].pc \in {"deleting", "returned"}
         /\ att[a].err = TestErr(Len(ts))
         /\ att[a].res = << >>
         /\ \A i \in At(a, "test") :
              \A j \in DOMAIN att[a].log :
                (~att[a].log[i].ok /\ j > i) => att[a].log[j].op = "delete"
         /\ att[a].pc = "returned" => Cardinality(At(a, "delete")) = 1
         /\ EntryOf(ledger, a) = EntryOf(ledger0, a)

\* the second test failed after the first passed; the VM delete was issued
\* and the merge has ended
C15_Witness ==
  /\ MergeDone
  /\ att["fedora:39"].err = TestErr(2)
  /\ AtOk("fedora:39", "test", TRUE) # {}
  /\ At("fedora:39", "delete") # {}
  /\ EntryOf(ledger, "fedora:39") = EntryOf(ledger0, "fedora:39")

WaitErrors == {"timeout", "fetch", "ctx"}

\* C16 as stated: a wait ended by timeout or by a failed status fetch makes
\* the attempt return that error, and a silent return from the wait step
\* happens only when the wait was ended by the cancellation.
C16_WaitErrorAlwaysReturned ==
  \A a \in Registry :
    (att[a].wait \in {"timeout", "fetch"} /\ att[a].pc \in {"deleting", "returned"}) =>
      att[a].err = Err(att[a].wait)

\* C16 amended: when the wait returns an error the attempt examines the
\* signal once; fired at that moment, the return is silent whatever ended
\* the wait; not fired, the attempt returns the wait's error and no result.
\* Either way the VM delete is issued before the attempt returns.
C16_WaitErrorOutcome ==
  \A a \in Registry :
    att[a].wait \in WaitErrors =>
      /\ att[a].pc \in {"deleting", "returned"}
      /\ Cardinality(At(a, "gatew")) = 1
      /\ att[a].res = << >>
      /\ \A i \in At(a, "gatew") :
           /\ att[a].log[i].ok => att[a].err = Err(att[a].wait)
           /\ ~att[a].log[i].ok => (att[a].log[i].c /\ att[a].err = Nil)
           /\ \A j \in DOMAIN att[a].log : j > i => att[a].log[j].op = "delete"
      /\ att[a].wait = "ctx" => att[a].err = Nil
      /\ att[a].pc = "returned" => Cardinality(At(a, "delete")) = 1

\* the wait timed out, the signal was fired when the error was examined,
\* and the attempt returned silently after its delete
C16_Witness ==
  \E a \in Registry :
    /\ att[a].wait = "timeout"
    /\ att[a].pc = "returned"
    /\ AtOk(a, "gatew", FALSE) # {}
    /\ att[a].res = << >> /\ att[a].err = Nil
    /\ At(a, "delete") # {}

\* C17: the pair (result, error) an attempt returns is the one of the return
\* statement that started the unwinding, whether the deferred delete call
\* succeeds or fails: the delete step leaves both unchanged, and the result
\* is sent to the channel exactly when it is non-nil.
C17_DeleteFailureKeepsOutcome ==
  [][\A a \in Registry :
       (att[a].pc = "deleting" /\ att'[a].pc = "returned") =>
         LET log2 == att'[a].log IN
         /\ log2[Len(log2)].op = "delete"
         /\ att'[a].res = att[a].res
         /\ att'[a].err = att[a].err
         /\ chan' = IF att[a].res = << >>
                      THEN chan
                      ELSE Append(chan, [Key |-> a, Value |-> att[a].res[1]])]_vars

\* an attempt whose delete call failed returned its verified result, which
\* the merge wrote to the ledger
C17_Witness ==
  \E a \in Registry :
    /\ att[a].pc = "returned"
    /\ AtOk(a, "delete", FALSE) # {}
    /\ att[a].res # << >>
    /\ att[a].err = Nil
    /\ MergeDone
    /\ EntryOf(ledger, a) = att[a].res

\* C18: a checkpoint of an attempt observes cancellation only when the
\* run-wide signal was fired, whatever errors the other attempts returned.
\* While the signal is not fired every artifact's callback is invoked, and
\* a started attempt returns either its own error or the success result;
\* every result an attempt returned is in the ledger once the merge has
\* ended and in the ledger handed to the writer.
C18_SiblingErrorDoesNotCancel ==
  \A a \in Registry :
    /\ \A i \in DOMAIN att[a].log :
         (att[a].log[i].op \in CheckpointOps /\ ~att[a].log[i].ok) =>
           (att[a].log[i].c /\ cancelled)
    /\ (~cancelled /\ att[a].pc = "returned") =>
         /\ att[a].called
         /\ (att[a].started /\ att[a].tags # << >>) =>
              \/ att[a].err # Nil /\ att[a].res = << >>
              \/ att[a].err = Nil /\ att[a].res = <<Success(att[a].tags)>>
    /\ (att[a].pc \notin {"queued", "returned"}) => (mpc = "spawn" /\ ~closed)
    /\ (MergeDone /\ att[a].res # << >>) => EntryOf(ledger, a) = att[a].res
    /\ (saves > 0 /\ att[a].res # << >>) => EntryOf(savedArg[1], a) = att[a].res

\* one attempt failed at create, the signal was never fired, and the other
\* attempt's result was merged and handed to the writer
C18_Witness ==
  /\ saves = 1
  /\ ~cancelled
  /\ att["fedora:39"].err = Err("create")
  /\ att["fedora:40"].res # << >>
  /\ At("fedora:40", "delete") # {}
  /\ EntryOf(savedArg[1], "fedora:40") = att["fedora:40"].res
  /\ werr

\* C19: an attempt builds one VM object and issues at most one create call,
\* for the image of the first tag of the entry, and runs each test at most
\* once, however many tags the entry has; its success result carries the
\* whole tag sequence of the loaded entry with the verified flag set.
C19_OneCreateFirstTag ==
  \A a \in Registry :
    /\ Cardinality(At(a, "createVM")) <= 1
    /\ Cardinality(At(a, "create")) <= 1
    /\ Cardinality(At(a, "test")) <= Tests(a)
    /\ At(a, "create") # {} => AtOk(a, "createVM", TRUE) # {}
    /\ At(a, "createVM") # {} =>
         /\ att[a].tags = ledger0[a].Tags
         /\ att[a].img = << <<OptRegistry, att[a].tags[1]>> >>
    /\ At(a, "createVM") = {} => att[a].img = << >>
    /\ att[a].res # << >> =>
         /\ Cardinality(AtOk(a, "create", TRUE)) = 1
         /\ att[a].res[1].Tags = ledger0[a].Tags
         /\ att[a].res[1].Verified

\* an entry with two tags was verified by one create for its first tag
C19_Witness ==
  /\ MergeDone
  /\ Len(att["fedora:39"].tags) = 2
  /\ att["fedora:39"].tags[1] # att["fedora:39"].tags[2]
  /\ att["fedora:39"].res # << >>
  /\ Cardinality(At("fedora:39", "create")) = 1
  /\ EntryOf(ledger, "fedora:39") = <<[Tags |-> att["fedora:39"].tags, Verified |-> TRUE]>>

\* attempt a created a VM and has not yet deleted it
Owns(a) == att[a].pc \in {"waiting", "getvmi", "testing", "deleting"}

\* C20: the VMs of the attempts that created one and have not yet deleted
\* it are in the namespace under distinct names. A create call for a name
\* the namespace already holds fails, and an attempt whose create failed
\* returns that error at once: the namespace is unchanged and no delete is
\* issued. A delete step removes at most the VM of its own attempt, and
\* the VM of every other attempt stays in the namespace.
C20_DeletesOnlyOwnVM ==
  [][\A a \in Registry :
       /\ Owns(a) =>
            /\ AtOk(a, "create", TRUE) # {}
            /\ att[a].vm[1] \in cluster
            /\ \A b \in Registry \ {a} : Owns(b) => att[b].vm[1] # att[a].vm[1]
       /\ \A i \in At(a, "create") :
            /\ att[a].log[i].n = 1 => ~att[a].log[i].ok
            /\ ~att[a].log[i].ok =>
                 (att[a].pc = "returned" /\ i = Len(att[a].log) /\ att[a].err = Err("create"))
       /\ (att[a].pc = "creating" /\ Returns(a)) =>
            /\ cluster' = cluster
            /\ att'[a].log = Append(att[a].log, [op |-> "create", ok |-> FALSE,
                                                   n |-> Exists(att[a].vm[1]), c |-> cancelled])
            /\ At(a, "delete") = {}
            /\ att'[a].res = << >>
            /\ att'[a].err = Err("create")
       /\ (att[a].pc = "deleting" /\ Returns(a)) =>
            /\ cluster \ cluster' \subseteq {att[a].vm[1]}
            /\ cluster' \subseteq cluster
            /\ \A b \in Registry \ {a} : Owns(b) => att[b].vm[1] \in cluster']_vars

\* two attempts generated the same name: the create of the second failed
\* on the VM of the first, which is still waiting for its VM to be ready;
\* the second returned the error without a delete
C20_Witness ==
  /\ run = 1
  /\ att["fedora:39"].pc = "waiting"
  /\ cluster = {att["fedora:39"].vm[1]}
  /\ att["fedora:40"].pc = "returned"
  /\ \E i \in AtOk("fedora:40", "create", FALSE) : att["fedora:40"].log[i].n = 1
  /\ At("fedora:40", "delete") = {}
  /\ att["fedora:40"].err = Err("create")

====
